---- MODULE Spec2Model ----
(***************************************************************************)
(* cdecl.c: a program that reads one C declaration from standard input and *)
(* pronounces it.  The model follows the source: the lexer (skip_spaces,   *)
(* get_token, get_id, skip_to_char) reads one character per step, the      *)
(* resolver (pronounce) is one step per statement group of its loops.      *)
(*                                                                         *)
(* A character is a string of length one; a text is a sequence of          *)
(* characters; what printf writes is a string.                             *)
(***************************************************************************)
EXTENDS Integers, Sequences, FiniteSets, TLC

VARIABLES
  input,           \* the characters standard input holds (fixed for a run)
  NDEBUG,          \* the build: "defined", or "either" while no assert was evaluated
  stdin,           \* the stream: [rd: characters taken from input, ungot: pushed back]
  line,            \* static int line
  position,        \* static int position
  token,           \* static struct token_t token
  stack,           \* stack[0 .. head-1], as a sequence (stack[j+1] is the C stack[j])
  head,            \* static int head
  lex,             \* where the lexer is: "none" when get_token is not running
  i,               \* get_id: int i
  id,              \* get_id: the characters written through p so far
  pc,              \* where pronounce is
  right_finished,  \* pronounce: bool right_finished
  left_finished,   \* pronounce: bool left_finished
  left_token,      \* pronounce: struct token_t left_token
  stdout,          \* what was written to standard output
  stderr,          \* the diagnostics written to standard error, one per vfprintf
  status           \* the exit status, once pc = "exit"

vars == <<input, NDEBUG, stdin, line, position, token, stack, head, lex, i, id,
          pc, right_finished, left_finished, left_token, stdout, stderr, status>>

lexvars == <<stdin, line, position, i, id>>
resvars == <<stack, head, right_finished, left_finished, left_token>>

-----------------------------------------------------------------------------
(* Program constants *)

MAX_TOKEN_LEN == 64
MAX_TOKENS == 128

EXIT_SUCCESS == 0
EXIT_FAILURE == 1
\* the status of a process ended by abort(): 128 + SIGABRT
ABORTED == 134

TYPE == "TYPE"
SPECIFIER == "SPECIFIER"
IDENTIFIER == "IDENTIFIER"
ARRAY == "ARRAY"
POINTER == "POINTER"
LBRACE == "LBRACE"
RBRACE == "RBRACE"
END == "END"

EOF == "EOF"

-----------------------------------------------------------------------------
(* <ctype.h> in the "C" locale *)

Lower == {"a","b","c","d","e","f","g","h","i","j","k","l","m",
          "n","o","p","q","r","s","t","u","v","w","x","y","z"}
Upper == {"A","B","C","D","E","F","G","H","I","J","K","L","M",
          "N","O","P","Q","R","S","T","U","V","W","X","Y","Z"}
Digit == {"0","1","2","3","4","5","6","7","8","9"}

\* the vertical tab, which has no escape in a TLA+ string
VT == "\\v"

isspace(c) == c \in {" ", "\t", "\n", VT, "\f", "\r"}
isalpha(c) == c \in Lower \cup Upper
isalnum(c) == c \in Lower \cup Upper \cup Digit

-----------------------------------------------------------------------------
(* The words get_token compares with, as texts *)

kw_int == <<"i","n","t">>
kw_char == <<"c","h","a","r">>
kw_void == <<"v","o","i","d">>
kw_signed == <<"s","i","g","n","e","d">>
kw_unsigned == <<"u","n","s","i","g","n","e","d">>
kw_short == <<"s","h","o","r","t">>
kw_long == <<"l","o","n","g">>
kw_float == <<"f","l","o","a","t">>
kw_double == <<"d","o","u","b","l","e">>
kw_const == <<"c","o","n","s","t">>
kw_volatile == <<"v","o","l","a","t","i","l","e">>

TypeNames == {kw_int, kw_char, kw_void, kw_signed, kw_unsigned,
              kw_short, kw_long, kw_float, kw_double}
SpecifierNames == {kw_const, kw_volatile}

\* printf's %s of a text
RECURSIVE Str(_)
Str(w) == IF Len(w) = 0 THEN ""
          ELSE IF Len(w) = 1 THEN w[1]
          ELSE Str(SubSeq(w, 1, Len(w) \div 2))
                 \o Str(SubSeq(w, Len(w) \div 2 + 1, Len(w)))

\* the text s, n times
Rep(s, n) == [j \in 1..(n * Len(s)) |-> s[((j - 1) % Len(s)) + 1]]

\* the string s, n times
RECURSIVE RepStr(_, _)
RepStr(s, n) == IF n = 0 THEN ""
                ELSE LET h == RepStr(s, n \div 2)
                     IN IF n % 2 = 0 THEN h \o h ELSE h \o h \o s

-----------------------------------------------------------------------------
(* The inputs.  Bounds of the model: *)

\* pointer stars of a plain declaration
MaxStars == 2
\* bracket pairs of a plain declaration
MaxBrackets == 2
\* stars or bracket pairs at each of the four places of a grouped declaration
MaxGroup == 1
\* characters of a parameter list
MaxParamLen == 3
\* lexemes of a free-form input
MaxLexemes == 4

\* every text over the set S of at most n elements
TextsUpTo(S, n) == UNION {[1..k -> S] : k \in 0..n}

\* the concatenation of a sequence of texts
RECURSIVE Flat(_)
Flat(ls) == IF ls = <<>> THEN <<>> ELSE Head(ls) \o Flat(Tail(ls))

\* how the tokens of a generated declaration are separated
Styles == {"tight", "spaced", "lines"}
Gap(st) == CASE st = "tight" -> <<>>
             [] st = "spaced" -> <<" ">>
             [] st = "lines" -> <<"\n", "\t">>

\* the separator after a word that is followed by another word
WordGap(st) == IF Gap(st) = <<>> THEN <<" ">> ELSE Gap(st)

Names == {<<"x">>, <<"f","o","o","_","1">>}

\* a name of n characters: a letter, then letters, digits and underscores
LongName(n) == SubSeq(Rep(<<"a","Z","_","9">>, n), 1, n)

\* T, k stars, name, m empty bracket pairs, ";"
DeclText(T, k, name, m, st) ==
  Gap(st) \o T \o (IF k = 0 THEN WordGap(st) ELSE Gap(st))
    \o Rep(<<"*">> \o Gap(st), k) \o name \o Gap(st)
    \o Rep(<<"[">> \o Gap(st) \o <<"]">> \o Gap(st), m) \o <<";">>

\* T, a stars, "(", b stars, name, c bracket pairs, ")", d bracket pairs, ";"
GroupText(T, a, b, name, c, d, st) ==
  T \o Gap(st) \o Rep(<<"*">>, a) \o <<"(">> \o Gap(st) \o Rep(<<"*">>, b)
    \o name \o Rep(<<"[","]">>, c) \o Gap(st) \o <<")">> \o Rep(<<"[","]">>, d)
    \o Gap(st) \o <<";">>

\* S T name;
SpecText(S, T, name) == S \o <<" ">> \o T \o <<" ">> \o name \o <<";">>

\* T *f(P);
FuncText(T, P) == T \o <<" ", "*", "f", "(">> \o P \o <<")", ";">>

\* <<T, k, name, m, style>>: the plain declarations, with few stars, with as
\* many as the stack takes and one more, and with a name of MAX_TOKEN_LEN
\* characters and one more
DeclParams ==
  (TypeNames \X (0..MaxStars) \X Names \X (0..MaxBrackets) \X Styles)
  \cup ({kw_int} \X {MAX_TOKENS - 2, MAX_TOKENS - 1} \X {<<"x">>} \X (0..1) \X {"tight"})
  \cup ({kw_int} \X {1} \X {LongName(MAX_TOKEN_LEN), LongName(MAX_TOKEN_LEN + 1)}
          \X {1} \X {"tight"})

DeclInputs == {DeclText(d[1], d[2], d[3], d[4], d[5]) : d \in DeclParams}

\* <<T, a, b, name, c, d, style>>: the grouped declarations, likewise
GroupParams ==
  (TypeNames \X (0..MaxGroup) \X (0..MaxGroup) \X {<<"x">>}
     \X (0..MaxGroup) \X (0..MaxGroup) \X {"tight", "lines"})
  \cup {<<kw_int, ab[1], ab[2], <<"x">>, 1, 1, "tight">> :
          ab \in {<<MAX_TOKENS - 3, 0>>, <<0, MAX_TOKENS - 3>>,
                  <<MAX_TOKENS - 2, 0>>, <<1, MAX_TOKENS - 3>>}}

GroupInputs ==
  {GroupText(g[1], g[2], g[3], g[4], g[5], g[6], g[7]) : g \in GroupParams}

SpecInputs ==
  {SpecText(S, T, <<"x">>) : S \in SpecifierNames, T \in TypeNames}

ParamChars == {"a", ";", "[", "]", "@", " "}
ParamTexts == TextsUpTo(ParamChars, MaxParamLen)
                \cup {LongName(MAX_TOKEN_LEN), LongName(MAX_TOKEN_LEN + 1)}

FuncInputs == {FuncText(T, P) : T \in {kw_int, kw_char}, P \in ParamTexts}

\* a word of n characters after a type, and as the first word
LongIdInputs ==
  {kw_int \o <<" ">> \o LongName(n) \o e :
     n \in (MAX_TOKEN_LEN - 1)..(MAX_TOKEN_LEN + 2), e \in {<<";">>, <<"\n", ";">>, <<>>}}

\* n stars before the name
LongDeclInputs ==
  {Rep(<<"*">>, n) \o <<"x", ";">> : n \in (MAX_TOKENS - 2)..(MAX_TOKENS + 1)}

Lexemes == {kw_int, <<"x">>, <<"*">>, <<"[", "]">>, <<"(">>, <<")">>,
            <<";">>, <<"@">>, <<" ">>}
FreeInputs == {Flat(ls) : ls \in TextsUpTo(Lexemes, MaxLexemes)}

\* the scenarios of the documentation, and declarations with a second name,
\* a stray character, a stray semicolon, or brackets around other characters
Scenarios ==
  { kw_int \o <<" ", "x", ";">>,
    kw_char \o <<" ", "*", "x", ";">>,
    kw_int \o <<" ", "x", "[", "]", ";">>,
    kw_int \o <<" ", "*", "x", "[", "]", ";">>,
    kw_char \o <<" ", "*", "f", "(", ")", ";">>,
    kw_const \o <<" ">> \o kw_int \o <<" ", "x", ";">>,
    kw_int \o <<" ", "x", " ", "y", ";">>,
    kw_int \o <<" ", "x", "[", "1", "0", "]", "[", "\n", "]", ";", "z">>,
    kw_int \o <<" ", "@", " ", "x", ";">>,
    kw_int \o <<" ", ";", " ", "x", ";">>,
    kw_int \o <<" ", "f", "(", ")", "@", "(", ")", ";">>,
    kw_int \o <<" ", "(", "*", "f", ")", "(">> \o kw_int \o <<"[", "]", ")", ";">>,
    kw_int \o <<" ", "x", "[", "(", ";", "a", "[", ")", "]", ";">>,
    kw_int \o <<" ", "x", "[", "(", ";", "a", "[", ")">> }

\* words that are no keywords but begin with one, or with part of one
NearKeywords ==
  { kw_int \o <<"e", "g", "e", "r">>, kw_int \o <<"_">>, kw_int \o <<"3", "2">>,
    <<"i", "n">>, <<"I", "n", "t">>, kw_const \o <<"a", "n", "t">>,
    kw_long \o kw_long }

\* a keyword or a word near one: as the name after a type, as the first word
\* before a name, and right before a semicolon or a star
WordInputs ==
  {kw_char \o <<" ">> \o w \o <<";">> : w \in NearKeywords}
  \cup {w \o e : w \in TypeNames \cup SpecifierNames \cup NearKeywords,
                 e \in {<<" ", "x", ";">>, <<";">>, <<"*", "x", ";">>}}

Inputs == DeclInputs \cup GroupInputs \cup SpecInputs \cup FuncInputs
            \cup LongIdInputs \cup LongDeclInputs \cup FreeInputs \cup Scenarios
            \cup WordInputs

-----------------------------------------------------------------------------
(* <stdio.h>: the stream.  One character of pushback is what the standard  *)
(* guarantees; ungetc on a stream that already holds one is taken to fail. *)

\* what getchar() returns
getchar_c(s) == IF s.ungot # <<>> THEN Head(s.ungot)
                ELSE IF s.rd < Len(input) THEN input[s.rd + 1]
                ELSE EOF

\* the stream after getchar()
getchar_s(s) == IF s.ungot # <<>> THEN [s EXCEPT !.ungot = Tail(@)]
                ELSE IF s.rd < Len(input) THEN [s EXCEPT !.rd = @ + 1]
                ELSE s

\* whether ungetc(c, stdin) returns c
ungetc_ok(s) == s.ungot = <<>>

\* the stream after a successful ungetc(c, stdin)
ungetc_s(s, c) == [s EXCEPT !.ungot = <<c>> \o @]

-----------------------------------------------------------------------------
(* fatal, fatal_pos *)

msg_eof == "Unexpected end of file\n"
msg_token == "Too long token occured. Can't proceed.\n"
msg_decl == "Too long declaration. Can't proceed.\n"
msg_underflow == "Stack underflow. Invalid declaration.\n"
msg_io == "Unrecoverable IO error occurred.\n"
msg_assert == "Assertion `0' failed.\n"

\* fatal(format, ...): one vfprintf to stderr, then exit(EXIT_FAILURE).
\* The diagnostic is the sequence of the pieces the format expands to.
fatal(pieces) ==
  /\ stderr' = Append(stderr, pieces)
  /\ status' = EXIT_FAILURE
  /\ pc' = "exit"

\* mutation of pos_pieces: the position is left out of the diagnostic
pos_pieces_bare(l, p, format) == <<format>>

\* the pieces of fatal_pos(format) with line = l and position = p
pos_pieces(l, p, format) ==
  <<"Line: ", ToString(l), ", Position: ", ToString(p), ": ", format>>

fatal_pos(l, p, format) == fatal(pos_pieces(l, p, format))

\* assert(0) without NDEBUG: a message on stderr, then abort()
abort ==
  /\ stderr' = Append(stderr, <<msg_assert>>)
  /\ status' = ABORTED
  /\ pc' = "exit"

-----------------------------------------------------------------------------
(* _getchar: line and position after it has read c *)

getchar_line(c) == IF c # EOF /\ c = "\n" THEN line + 1 ELSE line
getchar_position(c) == IF c = EOF THEN position
                       ELSE IF c = "\n" THEN 0
                       ELSE position + 1

-----------------------------------------------------------------------------
(* The lexer.  get_token runs from lex = "skip_spaces" to lex = "none".    *)

\* skip_spaces: one turn of its loop.  It reads with getchar, not _getchar.
skip_spaces ==
  /\ pc # "exit" /\ lex = "skip_spaces"
  /\ LET c == getchar_c(stdin)
         s == getchar_s(stdin)
     IN IF c = EOF
        THEN /\ fatal_pos(line, position, msg_eof)
             /\ stdin' = s
             /\ UNCHANGED <<line, position, token, lex, i, id>>
        ELSE IF ~isspace(c)
        THEN IF ungetc_ok(s)
             THEN /\ stdin' = ungetc_s(s, c)
                  /\ position' = position - 1
                  /\ lex' = "get_token"
                  /\ UNCHANGED <<line, token, i, id, pc, stderr, status>>
             ELSE /\ fatal(<<msg_io>>)
                  /\ stdin' = s
                  /\ UNCHANGED <<line, position, token, lex, i, id>>
        ELSE /\ stdin' = s
             /\ UNCHANGED <<line, position, token, lex, i, id, pc, stderr, status>>
  /\ UNCHANGED <<input, NDEBUG, stdout>>
  /\ UNCHANGED resvars

\* the token type get_token gives a character that is a token by itself
char_type(c) == CASE c = ";" -> END
                  [] c = "(" -> LBRACE
                  [] c = ")" -> RBRACE
                  [] c = "*" -> POINTER

\* get_token after skip_spaces: reads one character and dispatches on it
get_token ==
  /\ pc # "exit" /\ lex = "get_token"
  /\ LET c == getchar_c(stdin)
         s == getchar_s(stdin)
     IN IF c = EOF
        THEN /\ fatal_pos(line, position + 1, msg_eof)
             /\ stdin' = s
             /\ position' = position + 1
             /\ UNCHANGED <<line, token, lex, i, id>>
        ELSE IF c \in {";", "(", ")", "*"}
        THEN /\ token' = [token EXCEPT !.type = char_type(c)]
             /\ stdin' = s
             /\ position' = position + 1
             /\ lex' = "none"
             /\ UNCHANGED <<line, i, id, pc, stderr, status>>
        ELSE IF isalpha(c)
        THEN IF ungetc_ok(s)
             THEN /\ stdin' = ungetc_s(s, c)
                  /\ position' = (position + 1) - 1
                  /\ lex' = "get_id"
                  /\ i' = 0
                  /\ id' = <<>>
                  /\ UNCHANGED <<line, token, pc, stderr, status>>
             ELSE /\ fatal(<<msg_io>>)
                  /\ stdin' = s
                  /\ position' = position + 1
                  /\ UNCHANGED <<line, token, lex, i, id>>
        ELSE IF c = "["
        THEN /\ stdin' = s
             /\ position' = position + 1
             /\ lex' = "skip_to_char"
             /\ UNCHANGED <<line, token, i, id, pc, stderr, status>>
        ELSE \* no branch of get_token matches: token is left as it was
             /\ stdin' = s
             /\ position' = position + 1
             /\ lex' = "none"
             /\ UNCHANGED <<line, token, i, id, pc, stderr, status>>
  /\ UNCHANGED <<input, NDEBUG, stdout>>
  /\ UNCHANGED resvars

\* mutation of word_type: a word that begins with a keyword is taken for it
word_type_prefix(name) ==
  IF \E t \in TypeNames : Len(name) >= Len(t) /\ SubSeq(name, 1, Len(t)) = t
  THEN TYPE
  ELSE IF \E t \in SpecifierNames :
            Len(name) >= Len(t) /\ SubSeq(name, 1, Len(t)) = t
  THEN SPECIFIER
  ELSE IDENTIFIER

\* the type get_token gives the word get_id has read
word_type(name) == IF name \in TypeNames THEN TYPE
                   ELSE IF name \in SpecifierNames THEN SPECIFIER
                   ELSE IDENTIFIER

\* mutation of id_full: the test is off by one
id_full_late(n) == n > MAX_TOKEN_LEN

\* whether get_id refuses another character after i of them
id_full(n) == n >= MAX_TOKEN_LEN

\* get_id: one turn of its loop; on the character that ends the word, the
\* terminator is stored and get_token sets the type.  id stands for the bytes
\* written into token.info.name so far; they become the name with the terminator.
get_id ==
  /\ pc # "exit" /\ lex = "get_id"
  /\ LET c == getchar_c(stdin)
         s == getchar_s(stdin)
         l == getchar_line(c)
         p == getchar_position(c)
     IN IF c = EOF
        THEN /\ fatal_pos(l, p, msg_eof)
             /\ stdin' = s
             /\ UNCHANGED <<line, position, token, lex, i, id>>
        ELSE IF isalnum(c) \/ c = "_"
        THEN IF id_full(i)
             THEN /\ fatal_pos(l, p, msg_token)
                  /\ stdin' = s
                  /\ line' = l
                  /\ position' = p
                  /\ i' = i + 1
                  /\ UNCHANGED <<token, lex, id>>
             ELSE /\ stdin' = s
                  /\ line' = l
                  /\ position' = p
                  /\ i' = i + 1
                  /\ id' = Append(id, c)
                  /\ UNCHANGED <<token, lex, pc, stderr, status>>
        ELSE IF ungetc_ok(s)
             THEN /\ stdin' = ungetc_s(s, c)
                  /\ line' = l
                  /\ position' = p - 1
                  /\ token' = [token EXCEPT !.type = word_type(id), !.name = id]
                  /\ lex' = "none"
                  /\ UNCHANGED <<i, id, pc, stderr, status>>
             ELSE /\ fatal(<<msg_io>>)
                  /\ stdin' = s
                  /\ line' = l
                  /\ position' = p
                  /\ UNCHANGED <<token, lex, i, id>>
  /\ UNCHANGED <<input, NDEBUG, stdout>>
  /\ UNCHANGED resvars

\* mutation of end: get_token skips to the closing parenthesis
end_paren == ")"

\* the character get_token has skip_to_char wait for
end == "]"

\* skip_to_char(']'): one turn of its loop; on ']' get_token makes the ARRAY token
skip_to_char ==
  /\ pc # "exit" /\ lex = "skip_to_char"
  /\ LET c == getchar_c(stdin)
         s == getchar_s(stdin)
         l == getchar_line(c)
         p == getchar_position(c)
     IN IF c = EOF
        THEN /\ fatal_pos(l, p, msg_eof)
             /\ stdin' = s
             /\ UNCHANGED <<line, position, token, lex, i, id>>
        ELSE /\ stdin' = s
             /\ line' = l
             /\ position' = p
             /\ IF c = end
                THEN /\ token' = [token EXCEPT !.type = ARRAY, !.size = -1]
                     /\ lex' = "none"
                ELSE UNCHANGED <<token, lex>>
             /\ UNCHANGED <<i, id, pc, stderr, status>>
  /\ UNCHANGED <<input, NDEBUG, stdout>>
  /\ UNCHANGED resvars

-----------------------------------------------------------------------------
(* The stack *)

stack_is_empty == head = 0

\* mutation of stack_full: the stack is never taken to be full
stack_full_never == FALSE

\* mutation of stack_full: the test is off by one
stack_full_late == head > MAX_TOKENS

\* stack_push's test for a full stack
stack_full == head >= MAX_TOKENS

\* the stack after stack[head++] = *token
pushed(tok) == Append(SubSeq(stack, 1, head), tok)

\* what stack_pop returns: stack[--head]
popped == stack[head]

-----------------------------------------------------------------------------
(* pronounce_token *)

\* the cases of the switch; any other type runs into assert(0)
in_switch(tok) ==
  tok.type \in {TYPE, SPECIFIER, ARRAY, POINTER, LBRACE, RBRACE, END}

type_text(tok) == Str(tok.name) \o " "
\* mutation of specifier_text: const is printed like volatile
specifier_text_plain(tok) == Str(tok.name) \o " "

specifier_text(tok) == IF tok.name = kw_const THEN "read-only "
                       ELSE Str(tok.name) \o " "

\* mutation of pronounce_token: the texts of ARRAY and POINTER are exchanged
pronounce_token_swapped(tok) ==
  CASE tok.type = TYPE -> type_text(tok)
    [] tok.type = SPECIFIER -> specifier_text(tok)
    [] tok.type = ARRAY -> "pointer to "
    [] tok.type = POINTER -> "array of "
    [] tok.type = LBRACE -> "function returning "
    [] OTHER -> ""

\* what pronounce_token prints for tok
pronounce_token(tok) ==
  CASE tok.type = TYPE -> type_text(tok)
    [] tok.type = SPECIFIER -> specifier_text(tok)
    [] tok.type = ARRAY -> "array of "
    [] tok.type = POINTER -> "pointer to "
    [] tok.type = LBRACE -> "function returning "
    [] OTHER -> ""

\* the builds in which assert(0) can be evaluated now: a build with NDEBUG
\* skips it, a build without aborts; once a run has passed an assert it is
\* a run of a build with NDEBUG
Builds == IF NDEBUG = "either" THEN {"undefined", "defined"} ELSE {NDEBUG}

-----------------------------------------------------------------------------
(* pronounce.  pc is the statement pronounce is at, or will be at when the *)
(* get_token it has called returns.                                         *)

call_get_token(ret) ==
  /\ pc' = ret
  /\ lex' = "skip_spaces"

\* lines 392-393: stack_push(&token), and the test of the first loop
collect ==
  /\ pc = "push" /\ lex = "none"
  /\ IF stack_full
     THEN /\ fatal(<<msg_decl>>)
          /\ UNCHANGED <<stack, head, lex>>
     ELSE /\ stack' = pushed(token)
          /\ head' = head + 1
          /\ IF token.type # IDENTIFIER
             THEN call_get_token("push")
             ELSE pc' = "pop_id" /\ lex' = lex
          /\ UNCHANGED <<stderr, status>>
  /\ UNCHANGED <<input, NDEBUG, token, right_finished, left_finished,
                 left_token, stdout>>
  /\ UNCHANGED lexvars

\* what line 398 prints
subject(tok) == Str(tok.name) \o " is "

\* lines 396-408: the identifier is popped and printed, then the first right pass
pop_id ==
  /\ pc = "pop_id" /\ lex = "none"
  /\ IF stack_is_empty
     THEN /\ fatal(<<msg_underflow>>)
          /\ UNCHANGED <<stack, head, lex, stdout, right_finished, left_finished>>
     ELSE /\ head' = head - 1
          /\ stack' = SubSeq(stack, 1, head - 1)
          /\ stdout' = stdout \o subject(token)
          /\ right_finished' = FALSE
          /\ left_finished' = FALSE
          /\ call_get_token("right_say")
          /\ UNCHANGED <<stderr, status>>
  /\ UNCHANGED <<input, NDEBUG, token, left_token>>
  /\ UNCHANGED lexvars

\* mutation of right_goes_on: END does not end the right pass
right_goes_on_past_end(tok) == tok.type # RBRACE

\* whether the right pass goes on after this token (lines 420-421)
right_goes_on(tok) == tok.type # END /\ tok.type # RBRACE

\* lines 409-426: the token of the right pass is pronounced; a LBRACE starts
\* the skipping of the arguments, END or RBRACE ends the pass
right_pass ==
  /\ pc = "right_say" /\ lex = "none"
  /\ \E build \in (IF in_switch(token) THEN {NDEBUG} ELSE Builds) :
       IF ~in_switch(token) /\ build = "undefined"
       THEN /\ abort
            /\ UNCHANGED <<NDEBUG, lex, stdout, right_finished>>
       ELSE /\ NDEBUG' = build
            /\ stdout' = stdout \o pronounce_token(token)
            /\ IF token.type = LBRACE
               THEN call_get_token("args_test") /\ UNCHANGED right_finished
               ELSE IF right_goes_on(token)
               THEN call_get_token("right_say") /\ UNCHANGED right_finished
               ELSE /\ right_finished' = (token.type = END)
                    /\ pc' = "left"
                    /\ lex' = lex
            /\ UNCHANGED <<stderr, status>>
  /\ UNCHANGED <<input, token, stack, head, left_finished, left_token>>
  /\ UNCHANGED lexvars

\* lines 413-421: a token of the argument list was read; RBRACE ends the list,
\* the token is made a LBRACE and the right pass reads on
skip_args ==
  /\ pc = "args_test" /\ lex = "none"
  /\ IF token.type # RBRACE
     THEN call_get_token("args_test") /\ UNCHANGED token
     ELSE /\ token' = [token EXCEPT !.type = LBRACE]
          /\ call_get_token("right_say")
  /\ UNCHANGED <<input, NDEBUG, stdout, stderr, status>>
  /\ UNCHANGED resvars
  /\ UNCHANGED lexvars

\* line 430
left_enter ==
  /\ pc = "left" /\ lex = "none"
  /\ pc' = IF ~left_finished THEN "left_pop" ELSE "check"
  /\ UNCHANGED <<input, NDEBUG, token, lex, stdout, stderr, status>>
  /\ UNCHANGED resvars
  /\ UNCHANGED lexvars

\* whether the left pass pronounces the token it popped (line 436)
left_says(tok) == tok.type # LBRACE

\* mutation of left_goes_on: the left pass pops on after the last token
left_goes_on_always(tok, n) == TRUE

\* mutation of left_goes_on: a popped LBRACE does not end the left pass
left_goes_on_through(tok, n) == n # 0

\* whether the left pass pops again (lines 439-440), with n tokens left
left_goes_on(tok, n) == n # 0 /\ tok.type # LBRACE

\* lines 432-444: one turn of the loop of the left pass
left_pass ==
  /\ pc = "left_pop" /\ lex = "none"
  /\ IF stack_is_empty
     THEN /\ fatal(<<msg_underflow>>)
          /\ UNCHANGED <<NDEBUG, stack, head, left_token, left_finished, stdout>>
     ELSE \E build \in (IF in_switch(popped) \/ ~left_says(popped)
                        THEN {NDEBUG} ELSE Builds) :
       IF left_says(popped) /\ ~in_switch(popped) /\ build = "undefined"
       THEN /\ abort
            /\ left_token' = popped
            /\ head' = head - 1
            /\ stack' = SubSeq(stack, 1, head - 1)
            /\ UNCHANGED <<NDEBUG, left_finished, stdout>>
       ELSE /\ NDEBUG' = build
            /\ left_token' = popped
            /\ head' = head - 1
            /\ stack' = SubSeq(stack, 1, head - 1)
            /\ stdout' = IF left_says(popped)
                         THEN stdout \o pronounce_token(popped)
                         ELSE stdout
            /\ IF left_goes_on(popped, head - 1)
               THEN pc' = "left_pop" /\ UNCHANGED left_finished
               ELSE /\ left_finished' = IF head - 1 = 0 THEN TRUE ELSE left_finished
                    /\ pc' = "check"
            /\ UNCHANGED <<stderr, status>>
  /\ UNCHANGED <<input, token, lex, right_finished>>
  /\ UNCHANGED lexvars

\* mutation of both_finished: the loop is never left
both_finished_never == FALSE

\* mutation of both_finished: the right side is not waited for
both_finished_left == left_finished

\* mutation of both_finished: the left side is not waited for
both_finished_right == right_finished

\* the test that ends the loop of pronounce (line 447)
both_finished == left_finished /\ right_finished

\* lines 447-450 and 404-406: leave the loop, or start the next pass
check ==
  /\ pc = "check" /\ lex = "none"
  /\ IF both_finished
     THEN pc' = "newline" /\ lex' = lex
     ELSE IF ~right_finished
     THEN call_get_token("right_say")
     ELSE pc' = "left" /\ lex' = lex
  /\ UNCHANGED <<input, NDEBUG, token, stdout, stderr, status>>
  /\ UNCHANGED resvars
  /\ UNCHANGED lexvars

\* line 452, and main's return EXIT_SUCCESS
finish ==
  /\ pc = "newline" /\ lex = "none"
  /\ stdout' = stdout \o "\n"
  /\ status' = EXIT_SUCCESS
  /\ pc' = "exit"
  /\ UNCHANGED <<input, NDEBUG, token, lex, stderr>>
  /\ UNCHANGED resvars
  /\ UNCHANGED lexvars

-----------------------------------------------------------------------------

\* the statically zeroed token: type 0 is TYPE, the name is empty
zero_token == [type |-> TYPE, name |-> <<>>, size |-> 0]

Init ==
  /\ input \in Inputs
  /\ NDEBUG = "either"
  /\ stdin = [rd |-> 0, ungot |-> <<>>]
  /\ line = 1
  /\ position = 0
  /\ token = zero_token
  /\ stack = <<>>
  /\ head = 0
  /\ lex = "skip_spaces"
  /\ i = 0
  /\ id = <<>>
  /\ pc = "push"
  /\ right_finished = FALSE
  /\ left_finished = FALSE
  /\ left_token = zero_token
  /\ stdout = ""
  /\ stderr = <<>>
  /\ status = 0

Next ==
  \/ skip_spaces
  \/ get_token
  \/ get_id
  \/ skip_to_char
  \/ collect
  \/ pop_id
  \/ right_pass
  \/ skip_args
  \/ left_enter
  \/ left_pass
  \/ check
  \/ finish

Spec == Init /\ [][Next]_vars

\* The token is static: it outlives a tokenization.  What a tokenization of
\* text that has run up to its END token leaves in it, for the texts that end
\* in the word x and their only semicolon: the END token, with the name x
\* still in it.  (Without a bracket nothing has set the size.)
token_left(text) ==
  LET n == Len(text)
  IN IF /\ n >= 2 /\ n <= MAX_TOKEN_LEN
        /\ text[n] = ";" /\ text[n - 1] = "x"
        /\ (n = 2 \/ ~(isalnum(text[n - 2]) \/ text[n - 2] = "_"))
        /\ \A k \in 1..(n - 1) : text[k] \notin {";", "["}
     THEN {[type |-> END, name |-> <<"x">>, size |-> 0]}
     ELSE {}

\* the state in which the stream is tokenized again from a fresh cursor: as
\* Init, but for the token, which is the zeroed one or the one left
InitAgain ==
  /\ input \in Inputs
  /\ NDEBUG = "either"
  /\ stdin = [rd |-> 0, ungot |-> <<>>]
  /\ line = 1
  /\ position = 0
  /\ token \in {zero_token} \cup token_left(input)
  /\ stack = <<>>
  /\ head = 0
  /\ lex = "skip_spaces"
  /\ i = 0
  /\ id = <<>>
  /\ pc = "push"
  /\ right_finished = FALSE
  /\ left_finished = FALSE
  /\ left_token = zero_token
  /\ stdout = ""
  /\ stderr = <<>>
  /\ status = 0

SpecAgain == InitAgain /\ [][Next]_vars

-----------------------------------------------------------------------------
(* The claims *)

Exited == pc = "exit"
ExitedOk == pc = "exit" /\ status = EXIT_SUCCESS

\* what the right-left reading of T, k stars, name, m bracket pairs is
DeclPhrase(T, k, name, m) ==
  Str(name) \o " is " \o RepStr("array of ", m) \o RepStr("pointer to ", k)
    \o Str(T) \o " " \o "\n"

DeclCases ==
  {[text |-> DeclText(d[1], d[2], d[3], d[4], d[5]),
    phrase |-> DeclPhrase(d[1], d[2], d[3], d[4]),
    k |-> d[2], len |-> Len(d[3])] : d \in DeclParams}

\* C1 as stated: every input T, k stars, name, m empty bracket pairs, ";"
\* ends with exit status 0 and the output "name is ", m times "array of ",
\* k times "pointer to ", "T ", newline -- for every k >= 0 and every name.
C1_AnyStars ==
  Exited => \A d \in DeclCases :
              input = d.text => status = EXIT_SUCCESS /\ stdout = d.phrase

\* C1 as amended: the same, for the inputs whose type, k stars and name fit
\* the stack (k <= MAX_TOKENS - 2) and whose name has at most MAX_TOKEN_LEN
\* characters.
C1_PlainDeclaration ==
  Exited => \A d \in DeclCases :
              (input = d.text /\ d.k <= MAX_TOKENS - 2 /\ d.len <= MAX_TOKEN_LEN)
                => status = EXIT_SUCCESS /\ stdout = d.phrase

\* the run of "int *x[];" has ended with the phrase of the documentation
C1_Witness ==
  /\ ExitedOk
  /\ input = DeclText(kw_int, 1, <<"x">>, 1, "tight")
  /\ stdout = "x is array of pointer to int \n"

\* C2 as stated: "const T x;" gives "x is read-only T \n": the text of const
\* is written before the text of the type that follows it.
C2_ConstFirst ==
  Exited => \A T \in TypeNames :
              input = SpecText(kw_const, T, <<"x">>)
                => status = EXIT_SUCCESS
                   /\ stdout = "x is read-only " \o Str(T) \o " \n"

\* C2 as amended: "const T x;" gives "x is T read-only \n": the left pass pops
\* the type first, so the text of the type is written before that of const.
C2_TypeFirst ==
  Exited => \A T \in TypeNames :
              input = SpecText(kw_const, T, <<"x">>)
                => status = EXIT_SUCCESS
                   /\ stdout = "x is " \o Str(T) \o " read-only \n"

\* the run of "const int x;" has ended
C2_Witness ==
  /\ ExitedOk
  /\ input = SpecText(kw_const, kw_int, <<"x">>)
  /\ stdout = "x is int read-only \n"

\* C3: "T *f(P);" gives "f is function returning pointer to T \n" and exit
\* status 0 for every P without parentheses: the parameter list contributes
\* nothing.
C3_ParametersIgnored ==
  Exited => \A T \in {kw_int, kw_char}, P \in ParamTexts :
              input = FuncText(T, P)
                => status = EXIT_SUCCESS
                   /\ stdout = "f is function returning pointer to " \o Str(T) \o " \n"

\* what the right-left reading of a grouped declaration is
GroupPhrase(T, a, b, name, c, d) ==
  Str(name) \o " is " \o RepStr("array of ", c) \o RepStr("pointer to ", b)
    \o RepStr("array of ", d) \o RepStr("pointer to ", a) \o Str(T) \o " " \o "\n"

GroupCases ==
  {[text |-> GroupText(g[1], g[2], g[3], g[4], g[5], g[6], g[7]),
    phrase |-> GroupPhrase(g[1], g[2], g[3], g[4], g[5], g[6]),
    left |-> g[2] + g[3]] : g \in GroupParams}

Phase2 == pc \notin {"push", "pop_id"}

\* C5: a run that returns normally writes the final newline with an empty
\* stack and with right_finished and left_finished both true, and exits so;
\* and nothing is pushed once the identifier has been popped.
C5_EmptyAtReturn ==
  [][/\ pc' = "newline" => head' = 0 /\ stack' = <<>>
                           /\ right_finished' /\ left_finished'
     /\ (pc' = "exit" /\ status' = EXIT_SUCCESS)
          => head' = 0 /\ right_finished' /\ left_finished'
     /\ Phase2 => Phase2' /\ head' <= head /\ Len(stack') <= Len(stack)]_vars

\* the newline is about to be written after a left pass that ended at a
\* LBRACE and a later one that emptied the stack
C5_Witness ==
  /\ pc = "newline" /\ head = 0 /\ right_finished /\ left_finished
  /\ input = GroupText(kw_int, 1, 1, <<"x">>, 1, 1, "tight")

\* the message of a diagnostic: its last piece
Message(d) == d[Len(d)]

\* whether a diagnostic begins with "Line: <n>, Position: <p>: "
HasPosition(d) ==
  Len(d) >= 5 /\ d[1] = "Line: " /\ d[3] = ", Position: " /\ d[5] = ": "

\* this step ends the run in fatal() with the message m
Raises(m) ==
  /\ stderr' # stderr
  /\ Message(stderr'[Len(stderr')]) = m
  /\ pc' = "exit" /\ status' = EXIT_FAILURE

IsWordChar(c) == isalnum(c) \/ c = "_"

\* C6: get_id accepts a word of exactly MAX_TOKEN_LEN characters and stores it
\* with its terminator inside name[MAX_TOKEN_LEN + 1]; on the next character
\* of a longer word it ends in "Too long token" and writes no byte; the bytes
\* written are the characters of the input, and never more than MAX_TOKEN_LEN.
C6_TokenLength ==
  [][LET c == getchar_c(stdin)
     IN /\ Len(id') <= MAX_TOKEN_LEN /\ Len(token'.name) <= MAX_TOKEN_LEN
        /\ (lex' = "get_id" /\ pc' # "exit" /\ id' # <<>>)
             => id' = SubSeq(input, stdin'.rd - Len(id') + 1, stdin'.rd)
        /\ (lex = "get_id" /\ Len(id) = MAX_TOKEN_LEN /\ c # EOF /\ ~IsWordChar(c))
             => lex' = "none" /\ pc' # "exit"
                /\ token'.type = IDENTIFIER /\ token'.name = id
        /\ (lex = "get_id" /\ Len(id) = MAX_TOKEN_LEN /\ c # EOF /\ IsWordChar(c))
             => Raises(msg_token) /\ id' = id /\ token' = token
        /\ Raises(msg_token)
             => lex = "get_id" /\ Len(id) = MAX_TOKEN_LEN /\ IsWordChar(c)]_vars

\* get_token has returned a name of exactly MAX_TOKEN_LEN characters
C6_Witness ==
  /\ lex = "none" /\ pc # "exit"
  /\ token.type = IDENTIFIER
  /\ token.name = LongName(MAX_TOKEN_LEN)

\* C7 as stated: an identifier preceded by exactly MAX_TOKENS tokens is not
\* rejected as too long; one preceded by more is.  (When the identifier is
\* pushed, head is the number of tokens pushed before it.)
C7_Holds128 ==
  [][(pc = "push" /\ lex = "none" /\ token.type = IDENTIFIER)
       => (Raises(msg_decl) <=> head > MAX_TOKENS)]_vars

\* C7 as amended: the identifier is pushed too, so "Too long declaration" is
\* raised exactly when a token is pushed that has MAX_TOKENS tokens before it:
\* an identifier preceded by MAX_TOKENS - 1 tokens is pushed and popped, one
\* preceded by MAX_TOKENS tokens (or more) is rejected.
C7_Holds127 ==
  [][/\ Raises(msg_decl) <=> (pc = "push" /\ lex = "none" /\ head >= MAX_TOKENS)
     /\ (pc = "push" /\ lex = "none" /\ head < MAX_TOKENS)
          => stack' = Append(stack, token) /\ head' = head + 1 /\ pc' # "exit"
     /\ (pc = "push" /\ lex = "none" /\ token.type = IDENTIFIER
           /\ head = MAX_TOKENS - 1)
          => pc' = "pop_id"]_vars

\* the identifier was rejected with exactly MAX_TOKENS tokens before it
C7_Witness ==
  /\ pc = "exit" /\ status = EXIT_FAILURE
  /\ stderr = <<<<msg_decl>>>>
  /\ token.type = IDENTIFIER
  /\ head = MAX_TOKENS

\* C8 as stated: once get_token has produced an END token, get_token is
\* not called again and no character is read, in any phase.
C8_EndStopsReading ==
  [][(lex = "none" /\ token.type = END)
       => lex' = "none" /\ stdin' = stdin]_vars

\* C8 as amended: once get_token has produced an END token in the right
\* pass (not while the arguments are skipped), get_token is not called again
\* and no character is read; an END token read before the identifier or
\* inside an argument list does not end the reading.
C8_EndOfRightPass ==
  [][(lex = "none" /\ token.type = END /\ pc \notin {"push", "args_test"})
       => lex' = "none" /\ stdin' = stdin /\ token' = token
          /\ pc' \in {"left", "left_pop", "check", "newline", "exit"}]_vars

\* a run has ended normally and left input unread after the semicolon
C8_Witness ==
  /\ ExitedOk
  /\ token.type = END
  /\ stdin.rd < Len(input)

\* C9: every call of get_token makes its token from the characters it
\* consumes, so that no token of an earlier call is handed out again: a call
\* that returns after a single character has read ";", "(", ")" or "*" and
\* returns the token of that character.
C9_TokenFromCall ==
  [][(lex = "get_token" /\ lex' = "none" /\ pc' # "exit")
       => /\ getchar_c(stdin) \in {";", "(", ")", "*"}
          /\ token'.type = char_type(getchar_c(stdin))]_vars

C11_EofBeforeEnd ==
  /\ (Exited /\ ~right_finished)
       => /\ status # EXIT_SUCCESS
          /\ Len(stderr) = 1 /\ Message(stderr[1]) = msg_eof
  /\ ExitedOk => right_finished

\* C11 as amended: right_finished is set only by an END token of the right
\* pass; a run that ends without it ends with a non-zero status and one
\* diagnostic, which is "Unexpected end of file" whenever the lexer reads the
\* end of the stream, and else the one of the failure that came first (too
\* long token, too long declaration, stack underflow, failed assertion); the
\* end of the stream is never read after the END token of the right pass; a
\* run exits with status 0 only if the right pass read an END token.
C11_FailsWithoutEnd ==
  [][/\ (right_finished' /\ ~right_finished)
          => pc = "right_say" /\ lex = "none" /\ token.type = END
     /\ (pc' = "exit" /\ ~right_finished')
          => /\ status' # EXIT_SUCCESS
             /\ Len(stderr') = 1
             /\ Message(stderr'[1])
                  \in {msg_eof, msg_token, msg_decl, msg_underflow, msg_assert}
     /\ (pc' = "exit" /\ status' = EXIT_SUCCESS) => right_finished'
     /\ (pc # "exit" /\ lex # "none" /\ getchar_c(stdin) = EOF)
          => Raises(msg_eof) /\ ~right_finished]_vars

\* a run has ended in "Unexpected end of file" inside a bracket pair, no END
\* token read in the right pass
C11_Witness ==
  /\ pc = "exit" /\ status = EXIT_FAILURE /\ ~right_finished
  /\ lex = "skip_to_char"
  /\ Len(stderr) = 1 /\ Message(stderr[1]) = msg_eof

\* the place of the first character of the input that is not a space
FirstChar ==
  CHOOSE k \in 1..Len(input) :
    ~isspace(input[k]) /\ \A j \in 1..(k - 1) : isspace(input[j])

Unread == Len(input) - stdin.rd + Len(stdin.ungot)

\* the place of a statement of pronounce in the order of its passes, among
\* the statements reached with the same input left and the same stack
PassRank ==
  CASE pc \in {"push", "right_say", "args_test"} -> 7
    [] pc = "pop_id" -> 6
    [] pc = "check" /\ ~left_finished -> 5
    [] pc = "left" -> 4
    [] pc = "left_pop" -> 3
    [] pc = "check" /\ left_finished -> 2
    [] pc = "newline" -> 1
    [] OTHER -> 0

\* the work left: first the characters to read, then (between two calls of
\* get_token) the tokens to pop and the statements of the pass, then the
\* steps of a call of get_token before it consumes a character
Fuel ==
  IF pc = "exit" THEN 0
  ELSE 1 + 4000 * Unread
         + (CASE lex = "get_id" /\ i > 0 -> 2000
              [] lex = "none" ->
                   10 + 8 * (IF Phase2 THEN head ELSE MAX_TOKENS + 1) + PassRank
              [] lex = "skip_spaces" -> 3
              [] lex = "get_token" -> 2
              [] lex = "get_id" /\ i = 0 -> 1
              [] OTHER -> 0)

\* C13: every run ends, normally with right_finished and left_finished both
\* true or in a fatal error.  Every step uses up work, of which there is a
\* finite amount: a call of get_token returns with fewer characters left to
\* read than it was called with, and a left pass that is entered has a token
\* to pop or is fatal; and every statement short of the exit has a successor.
\* So a run of an input of n characters reaches the exit within Fuel steps.
C13_Terminates ==
  /\ [][Fuel' < Fuel]_vars
  /\ [](/\ Fuel >= 0
        /\ pc # "exit" => ENABLED Next
        /\ (pc = "check" /\ ~left_finished) => head > 0
        /\ ExitedOk => right_finished /\ left_finished
        /\ (Exited /\ ~ExitedOk) => Len(stderr) = 1)

\* a run has ended normally after more than one turn of the loop of
\* pronounce, each of which read input or popped tokens
C13_Witness ==
  /\ ExitedOk /\ right_finished /\ left_finished
  /\ input = GroupText(kw_int, 1, 1, <<"x">>, 1, 1, "lines")

\* The tokens of a text, as the text shows them.
\* The character at p lies inside a bracket pair, or closes it.
Swallowed(text, p) ==
  \E q \in 1..(p - 1) :
    text[q] = "[" /\ \A r \in (q + 1)..(p - 1) : text[r] # "]"

\* a word starts at p: a letter that no word before it runs into
WordStart(text, p) ==
  /\ ~Swallowed(text, p)
  /\ isalpha(text[p])
  /\ ~\E q \in 1..(p - 1) :
        isalpha(text[q]) /\ \A r \in q..(p - 1) : IsWordChar(text[r])

\* a token starts at p
TokenStart(text, p) ==
  \/ ~Swallowed(text, p) /\ text[p] \in {";", "(", ")", "*", "["}
  \/ WordStart(text, p)

\* the word that starts at p: the longest run of word characters
WordAt(text, p) ==
  LET e == CHOOSE k \in p..Len(text) :
             /\ \A r \in p..k : IsWordChar(text[r])
             /\ (k = Len(text) \/ ~IsWordChar(text[k + 1]))
  IN SubSeq(text, p, e)

\* the kind and the text of the token that starts at p
TokenAt(text, p) ==
  IF text[p] \in {";", "(", ")", "*"}
  THEN [type |-> char_type(text[p]), name |-> <<>>]
  ELSE IF text[p] = "[" THEN [type |-> ARRAY, name |-> <<>>]
  ELSE [type |-> word_type(WordAt(text, p)), name |-> WordAt(text, p)]

\* the tokens that start in the first n characters of the text, left to right
TextTokens(text, n) ==
  LET starts == {p \in 1..n : TokenStart(text, p)}
      nth(k) == CHOOSE p \in starts : Cardinality({q \in starts : q <= p}) = k
  IN [k \in 1..Cardinality(starts) |-> TokenAt(text, nth(k))]

\* the kind of a token of the program, and its text if it is a word
Shown(tok) ==
  [type |-> tok.type,
   name |-> IF tok.type \in {TYPE, SPECIFIER, IDENTIFIER} THEN tok.name ELSE <<>>]

ShownStack == [k \in 1..Len(stack) |-> Shown(stack[k])]

\* the characters consumed: those read and not pushed back
Consumed == stdin.rd - Len(stdin.ungot)

\* the tokens of the input that precede its first identifier
BeforeIdentifier ==
  LET all == TextTokens(input, Len(input))
      ids == {k \in 1..Len(all) : all[k].type = IDENTIFIER}
  IN IF ids = {} THEN all
     ELSE SubSeq(all, 1, (CHOOSE k \in ids : \A j \in ids : k <= j) - 1)

\* C14: in phase 1, whenever a token has been pushed, the stack is the
\* sequence of the tokens of the text consumed so far, in the order of the
\* text; in phase 2 the stack, bottom to top, is a prefix of the sequence of
\* the tokens that precede the identifier in the text.
C14_StackIsTextPrefix ==
  /\ ((pc = "push" /\ lex = "skip_spaces") \/ (pc = "pop_id" /\ lex = "none"))
       => ShownStack = TextTokens(input, Consumed)
  /\ (Phase2 /\ pc # "exit")
       => /\ Len(stack) <= Len(BeforeIdentifier)
          /\ ShownStack = SubSeq(BeforeIdentifier, 1, Len(stack))

\* C15: head stays within 0..MAX_TOKENS and counts the tokens on the stack.
\* stack_push on a full stack is fatal and stores nothing, and else stores the
\* token at stack[head], head < MAX_TOKENS, above the tokens already there;
\* stack_pop on an empty stack is fatal and leaves head, and else takes
\* stack[head - 1]; no other step touches the stack.
C15_HeadInBounds ==
  [][/\ head \in 0..MAX_TOKENS /\ head' \in 0..MAX_TOKENS
     /\ Len(stack') = head'
     /\ (pc = "push" /\ lex = "none")
          => IF head = MAX_TOKENS
             THEN Raises(msg_decl) /\ stack' = stack /\ head' = head
             ELSE /\ pc' # "exit"
                  /\ head' = head + 1
                  /\ stack'[head + 1] = token
                  /\ SubSeq(stack', 1, head) = stack
     /\ (pc \in {"pop_id", "left_pop"} /\ lex = "none")
          => IF head = 0
             THEN Raises(msg_underflow) /\ stack' = stack /\ head' = head
             ELSE /\ ~Raises(msg_underflow)
                  /\ head' = head - 1
                  /\ stack' = SubSeq(stack, 1, head - 1)
                  /\ pc = "left_pop" => left_token' = stack[head]
     /\ (pc \notin {"push", "pop_id", "left_pop"} \/ lex # "none")
          => stack' = stack /\ head' = head]_vars

\* stack_push is about to be called on a full stack
C15_Witness ==
  /\ pc = "push" /\ lex = "none"
  /\ head = MAX_TOKENS /\ Len(stack) = MAX_TOKENS

\* the newlines among the first n characters of the input, and the place of
\* the last of them (0 if there is none)
NewlinesIn(n) == Cardinality({k \in 1..n : input[k] = "\n"})
LastNewline(n) ==
  IF NewlinesIn(n) = 0 THEN 0
  ELSE CHOOSE k \in 1..n :
         input[k] = "\n" /\ \A j \in (k + 1)..n : input[j] # "\n"

\* C16: in every state line is 1 plus the number of newlines consumed, and
\* position is the number of characters consumed since the last consumed
\* newline, the characters pushed back not counted; position is never
\* negative and no newline is pushed back.
C16_LineAndPosition ==
  /\ line = 1 + NewlinesIn(Consumed)
  /\ position = Consumed - LastNewline(Consumed)
  /\ position >= 0
  /\ \A k \in 1..Len(stdin.ungot) : stdin.ungot[k] # "\n"

\* C17: get_token enters get_id on a letter only; when get_id returns, the
\* text of the token is a run w of word characters of the input that begins
\* with that letter and ends before a character that is none, that character
\* is pushed back and nothing after w is consumed; the token is a TYPE exactly
\* if w is one of the nine type names, a SPECIFIER exactly if w is const or
\* volatile, and an IDENTIFIER in every other case.
C17_Words ==
  [][/\ (lex = "get_token" /\ lex' = "get_id")
          => /\ isalpha(getchar_c(stdin))
             /\ stdin'.ungot = <<getchar_c(stdin)>> /\ id' = <<>>
     /\ (lex = "get_id" /\ lex' = "none" /\ pc' # "exit")
          => LET w == token'.name
                 e == stdin'.rd
             IN /\ Len(w) >= 1 /\ isalpha(w[1])
                /\ \A k \in 1..Len(w) : IsWordChar(w[k])
                /\ w = SubSeq(input, e - Len(w), e - 1)
                /\ ~IsWordChar(input[e])
                /\ stdin'.ungot = <<input[e]>>
                /\ token'.type \in {TYPE, SPECIFIER, IDENTIFIER}
                /\ token'.type = TYPE
                     <=> w \in {kw_int, kw_char, kw_void, kw_signed, kw_unsigned,
                                kw_short, kw_long, kw_float, kw_double}
                /\ token'.type = SPECIFIER <=> w \in {kw_const, kw_volatile}]_vars

\* get_token has returned the identifier "integer" and pushed back the
\* character after it
C17_Witness ==
  /\ lex = "none" /\ pc # "exit"
  /\ token.type = IDENTIFIER
  /\ token.name = kw_int \o <<"e", "g", "e", "r">>
  /\ stdin.ungot # <<>>

\* C18: on "[" get_token goes into skip_to_char, and from nowhere else; there
\* every character but "]" is consumed and nothing else happens (no token is
\* made, nothing is pushed or written), a nested "[" like any other; the
\* first "]" is consumed and ends the call with an ARRAY token of size -1;
\* the end of the stream is fatal with "Unexpected end of file".
C18_Brackets ==
  [][LET c == getchar_c(stdin)
     IN /\ (lex = "get_token" /\ c = "[")
             => lex' = "skip_to_char" /\ token' = token /\ pc' = pc
        /\ (lex' = "skip_to_char" /\ lex # "skip_to_char")
             => lex = "get_token" /\ c = "["
        /\ (lex = "skip_to_char" /\ c = EOF) => Raises(msg_eof)
        /\ (lex = "skip_to_char" /\ c # EOF /\ c = "]")
             => /\ lex' = "none" /\ pc' = pc
                /\ token'.type = ARRAY /\ token'.size = -1
                /\ stdin' = [rd |-> stdin.rd + 1, ungot |-> <<>>]
                /\ stack' = stack /\ stdout' = stdout
        /\ (lex = "skip_to_char" /\ c # EOF /\ c # "]")
             => /\ lex' = "skip_to_char" /\ pc' = pc
                /\ token' = token
                /\ stdin' = [rd |-> stdin.rd + 1, ungot |-> <<>>]
                /\ stack' = stack /\ stdout' = stdout
        /\ (lex' = "skip_to_char" /\ pc' # "exit")
             => \E q \in 1..stdin'.rd :
                  /\ input[q] = "["
                  /\ \A r \in (q + 1)..stdin'.rd : input[r] # "]"]_vars

\* the run of "int x[(;a[)];" has ended: the brackets gave one ARRAY token
C18_Witness ==
  /\ ExitedOk
  /\ input = kw_int \o <<" ", "x", "[", "(", ";", "a", "[", ")", "]", ";">>
  /\ stdout = "x is array of int \n"

\* the first call of get_token yields an IDENTIFIER: the first character of
\* the input that is not a space is a letter, and the word it starts is no
\* keyword, has at most MAX_TOKEN_LEN characters and is followed by a
\* character
FirstYieldsIdentifier ==
  /\ \E k \in 1..Len(input) : ~isspace(input[k])
  /\ isalpha(input[FirstChar])
  /\ LET w == WordAt(input, FirstChar)
     IN /\ w \notin TypeNames \cup SpecifierNames
        /\ Len(w) <= MAX_TOKEN_LEN
        /\ FirstChar + Len(w) <= Len(input)

\* C19 as stated: a run ends in "Stack underflow" exactly if the first call
\* of get_token yields an IDENTIFIER.
C19_UnderflowIffIdentifierFirst ==
  Exited => ((stderr = <<<<msg_underflow>>>>) <=> FirstYieldsIdentifier)

\* C19 as amended: "Stack underflow" is raised only on inputs whose first
\* token is an IDENTIFIER, and on each of them whose first right pass comes to
\* its end (an END or RBRACE token) without another failure; it is raised by
\* the first pop of the left pass, after "<name> is " and the texts of that
\* right pass have been written; on every other input stack_pop is never
\* called with an empty stack.
C19_UnderflowOnlyIdentifierFirst ==
  [][/\ (pc = "pop_id" /\ lex = "none")
          => head > 0 /\ pc' # "exit" /\ stdout' = Str(token.name) \o " is "
     /\ Raises(msg_underflow)
          => /\ FirstYieldsIdentifier
             /\ pc = "left_pop" /\ lex = "none" /\ head = 0
             /\ token.type \in {END, RBRACE}
             /\ Len(stdout) >= Len(WordAt(input, FirstChar)) + 4
             /\ stdout' = stdout
     /\ (pc = "left_pop" /\ lex = "none" /\ FirstYieldsIdentifier)
          => Raises(msg_underflow)
     /\ (pc = "left_pop" /\ lex = "none" /\ ~FirstYieldsIdentifier)
          => head > 0 /\ ~Raises(msg_underflow)]_vars

\* the run of "x;" has ended in "Stack underflow" after "x is " was written
C19_Witness ==
  /\ pc = "exit" /\ status = EXIT_FAILURE
  /\ input = <<"x", ";">>
  /\ stderr = <<<<msg_underflow>>>>
  /\ stdout = "x is "

====
